---- MODULE Spec2Model ----
(***************************************************************************)
(* A model of src/script.js: the recursive carpet of cubes (drawCarpet),   *)
(* the per-cube model matrix (drawCube), the frame loop (animate), the     *)
(* pointer / wheel / slider handlers and the top-level script that wires   *)
(* them.                                                                   *)
(*                                                                         *)
(* Numbers.  JavaScript numbers are held as exact integers in fixed units: *)
(*   - a length or coordinate v is the integer v * Unit;                   *)
(*   - an angle a (radians) is the integer a * AngleDen;                   *)
(*   - a zoom scale s is the integer s * ScaleDen.                         *)
(* Unit is chosen so that every division drawCarpet, createCubeVertices    *)
(* and drawCube perform on the modelled inputs is exact, and so that the   *)
(* rounding to 4 decimals drawCube applies lands on integers.              *)
(*                                                                         *)
(* Matrices.  A mat4 is held as the ordered sequence of the elementary     *)
(* factors (scale, rotation, translation) whose product it is, left to     *)
(* right; the identity is the empty sequence and the matrix product is     *)
(* concatenation.  Two equal sequences denote equal matrices.              *)
(***************************************************************************)
EXTENDS Integers, Sequences, FiniteSets, TLC

\* ------------------------------------------------------------------ bounds

\* Deepest iteration count given to a stand-alone drawCarpet call.
MaxIterations == 3

\* ------------------------------------------------------------------ units

\* drawCube rounds vertex coordinates with Math.round(v * 10000) / 10000.
RoundScale == 10000
\* animate adds speed / 200 to each angle; 0.01 rad (dragSensitivity) is 2/200.
AngleDen == 200
\* zoomSensitivity, the lower clamp 0.1 and the upper clamp 10.0 are tenths.
ScaleDen == 10

RECURSIVE Pow3(_)
Pow3(n) == IF n = 0 THEN 1 ELSE 3 * Pow3(n - 1)

\* Units per 1.0 of length: a multiple of 2 * 3^n for every depth n modelled
\* (exact thirds and halves) and of 2 * RoundScale (exact rounded midpoints).
Unit == 2 * RoundScale * Pow3(MaxIterations)

\* ------------------------------------------------------- cube geometry

\* createCubeTextureCoordinates(): 6 faces x 6 vertices x (u, v), the same
\* unit-square pattern on every face.
FaceTextureCoordinates == <<0, 0,  1, 0,  1, 1,  0, 0,  1, 1,  0, 1>>

createCubeTextureCoordinates ==
    FaceTextureCoordinates \o FaceTextureCoordinates \o FaceTextureCoordinates
    \o FaceTextureCoordinates \o FaceTextureCoordinates \o FaceTextureCoordinates

\* Mutant of createCubeVertices: the half side d taken to be the whole side.
createCubeVerticesWholeSide(x, y, z, size) ==
    LET d == size IN
    << x-d, y-d, z+d,   x+d, y-d, z+d,   x+d, y+d, z+d,
       x-d, y-d, z+d,   x+d, y+d, z+d,   x-d, y+d, z+d,
       x-d, y-d, z-d,   x+d, y-d, z-d,   x+d, y+d, z-d,
       x-d, y-d, z-d,   x+d, y+d, z-d,   x-d, y+d, z-d,
       x-d, y+d, z+d,   x+d, y+d, z+d,   x+d, y+d, z-d,
       x-d, y+d, z+d,   x+d, y+d, z-d,   x-d, y+d, z-d,
       x-d, y-d, z+d,   x+d, y-d, z+d,   x+d, y-d, z-d,
       x-d, y-d, z+d,   x+d, y-d, z-d,   x-d, y-d, z-d,
       x+d, y-d, z+d,   x+d, y-d, z-d,   x+d, y+d, z-d,
       x+d, y-d, z+d,   x+d, y+d, z-d,   x+d, y+d, z+d,
       x-d, y-d, z+d,   x-d, y-d, z-d,   x-d, y+d, z-d,
       x-d, y-d, z+d,   x-d, y+d, z-d,   x-d, y+d, z+d >>

\* createCubeVertices(x, y, z, size): 36 vertices (x, y, z) in the source's order.
createCubeVertices(x, y, z, size) ==
    LET d == size \div 2 IN
    << \* Front face
       x-d, y-d, z+d,   x+d, y-d, z+d,   x+d, y+d, z+d,
       x-d, y-d, z+d,   x+d, y+d, z+d,   x-d, y+d, z+d,
       \* Back face
       x-d, y-d, z-d,   x+d, y-d, z-d,   x+d, y+d, z-d,
       x-d, y-d, z-d,   x+d, y+d, z-d,   x-d, y+d, z-d,
       \* Top face
       x-d, y+d, z+d,   x+d, y+d, z+d,   x+d, y+d, z-d,
       x-d, y+d, z+d,   x+d, y+d, z-d,   x-d, y+d, z-d,
       \* Bottom face
       x-d, y-d, z+d,   x+d, y-d, z+d,   x+d, y-d, z-d,
       x-d, y-d, z+d,   x+d, y-d, z-d,   x-d, y-d, z-d,
       \* Right face
       x+d, y-d, z+d,   x+d, y-d, z-d,   x+d, y+d, z-d,
       x+d, y-d, z+d,   x+d, y+d, z-d,   x+d, y+d, z+d,
       \* Left face
       x-d, y-d, z+d,   x-d, y-d, z-d,   x-d, y+d, z-d,
       x-d, y-d, z+d,   x-d, y+d, z-d,   x-d, y+d, z+d >>

\* ------------------------------------------------------------- drawCarpet

\* drawCarpet(x, y, size, iterations) as the trace of what it does with each
\* of the 9 cells of its 3x3 grid, in loop order (i outer, j inner): the
\* centre cell is a drawCube call on fresh vertices; any other cell is a
\* recursive drawCarpet call while iterations > 1 (its own trace follows the
\* entry) and nothing otherwise.
RECURSIVE drawCarpet(_, _, _, _)
RECURSIVE drawCarpetCells(_, _, _, _, _)

\* The centre cell's entry of an invocation's trace.
CentreCube(x, y, size, iterations) ==
    LET newSize == size \div 3
        newX == x + newSize
        newY == y + newSize
    IN [call |-> [x |-> x, y |-> y, size |-> size, iterations |-> iterations,
                  i |-> 1, j |-> 1],
        act |-> "drawCube",
        vertices |-> createCubeVertices(newX + newSize \div 2, newY + newSize \div 2,
                                        newSize \div 2, newSize)]

\* Mutant of drawCarpetCells: recursing while iterations > 0, one level too deep.
RECURSIVE drawCarpetCellsTooDeep(_, _, _, _, _)
drawCarpetCellsTooDeep(x, y, size, iterations, k) ==
    IF k = 9 THEN <<>>
    ELSE
    LET newSize == size \div 3
        i == k \div 3
        j == k % 3
        cell == [x |-> x, y |-> y, size |-> size, iterations |-> iterations,
                 i |-> i, j |-> j]
        here ==
            IF i = 1 /\ j = 1 THEN << CentreCube(x, y, size, iterations) >>
            ELSE IF iterations > 0
            THEN << [call |-> cell, act |-> "drawCarpet", vertices |-> <<>>] >>
                 \o drawCarpet(x + i * newSize, y + j * newSize, newSize, iterations - 1)
            ELSE << [call |-> cell, act |-> "none", vertices |-> <<>>] >>
    IN here \o drawCarpetCellsTooDeep(x, y, size, iterations, k + 1)

\* Mutant of drawCarpetCells: the classical carpet, whose non-centre cells are
\* drawn as cubes once the iterations are used up.
RECURSIVE drawCarpetCellsLeaves(_, _, _, _, _)
drawCarpetCellsLeaves(x, y, size, iterations, k) ==
    IF k = 9 THEN <<>>
    ELSE
    LET newSize == size \div 3
        i == k \div 3
        j == k % 3
        newX == x + i * newSize
        newY == y + j * newSize
        cell == [x |-> x, y |-> y, size |-> size, iterations |-> iterations,
                 i |-> i, j |-> j]
        here ==
            IF i = 1 /\ j = 1 THEN << CentreCube(x, y, size, iterations) >>
            ELSE IF iterations > 1
            THEN << [call |-> cell, act |-> "drawCarpet", vertices |-> <<>>] >>
                 \o drawCarpet(newX, newY, newSize, iterations - 1)
            ELSE << [call |-> cell, act |-> "drawCube",
                     vertices |-> createCubeVertices(newX + newSize \div 2,
                                                     newY + newSize \div 2,
                                                     newSize \div 2, newSize)] >>
    IN here \o drawCarpetCellsLeaves(x, y, size, iterations, k + 1)

drawCarpetCells(x, y, size, iterations, k) ==
    IF k = 9 THEN <<>>
    ELSE
    LET newSize == size \div 3
        i == k \div 3
        j == k % 3
        newX == x + i * newSize
        newY == y + j * newSize
        cell == [x |-> x, y |-> y, size |-> size, iterations |-> iterations,
                 i |-> i, j |-> j]
        here ==
            IF i = 1 /\ j = 1
            THEN << [call |-> cell, act |-> "drawCube",
                     vertices |-> createCubeVertices(newX + newSize \div 2,
                                                     newY + newSize \div 2,
                                                     newSize \div 2, newSize)] >>
            ELSE IF iterations > 1
            THEN << [call |-> cell, act |-> "drawCarpet", vertices |-> <<>>] >>
                 \o drawCarpet(newX, newY, newSize, iterations - 1)
            ELSE << [call |-> cell, act |-> "none", vertices |-> <<>>] >>
    IN here \o drawCarpetCells(x, y, size, iterations, k + 1)

drawCarpet(x, y, size, iterations) == drawCarpetCells(x, y, size, iterations, 0)

IsDrawCube(e) == e.act = "drawCube"

\* The vertex arrays drawCarpet hands to drawCube, in call order.
CarpetCubes(x, y, size, iterations) ==
    LET t == SelectSeq(drawCarpet(x, y, size, iterations), IsDrawCube)
    IN [k \in 1..Len(t) |-> t[k].vertices]

\* ------------------------------------------------------------------ mat4

\* One elementary factor of a matrix product: op is "scale" (v the three
\* factors, in 1/ScaleDen), "translate" (v the offset, in 1/Unit) or "rotate"
\* (v the axis, rad the angle in 1/AngleDen); inv / tr say the factor is
\* inverted / transposed.
Factor(op, v, rad) == [op |-> op, v |-> v, rad |-> rad, inv |-> FALSE, tr |-> FALSE]

XAxis == <<1, 0, 0>>
YAxis == <<0, 1, 0>>
ZAxis == <<0, 0, 1>>

\* mat4.create() and mat4.identity(out): the identity matrix.
Mat4Create == <<>>
Mat4Identity(out) == <<>>

\* mat4.multiply(out, a, b): out = a * b.
Mat4Multiply(a, b) == a \o b

\* mat4.scale(out, a, v): out = a * S(v).
Mat4Scale(a, v) == a \o <<Factor("scale", v, 0)>>

\* mat4.translate(out, a, v): out = a * T(v).
Mat4Translate(a, v) == a \o <<Factor("translate", v, 0)>>

\* mat4.rotate(out, a, rad, axis): out = a * R(axis, rad).
Mat4Rotate(a, rad, axis) == a \o <<Factor("rotate", axis, rad)>>

\* mat4.rotateX / rotateY / rotateZ(out, a, rad): out = a * R(axis, rad) for
\* the coordinate axis.
Mat4RotateX(a, rad) == Mat4Rotate(a, rad, XAxis)
Mat4RotateY(a, rad) == Mat4Rotate(a, rad, YAxis)
Mat4RotateZ(a, rad) == Mat4Rotate(a, rad, ZAxis)

Reverse(s) == [k \in 1..Len(s) |-> s[Len(s) + 1 - k]]

\* mat4.invert(out, a): the inverse of a product is the product of the
\* inverses in reverse order.  (Every matrix inverted here is a product of
\* rotations, translations and scales by at least 0.1, hence invertible.)
Mat4Invert(a) == Reverse([k \in 1..Len(a) |-> [a[k] EXCEPT !.inv = ~a[k].inv]])

\* mat4.transpose(out, a): likewise, the transposes in reverse order.
Mat4Transpose(a) == Reverse([k \in 1..Len(a) |-> [a[k] EXCEPT !.tr = ~a[k].tr]])

\* ------------------------------------------------------------- drawCube

\* Math.round(v * 10000) / 10000 for v in 1/Unit: Math.round is
\* floor(t + 1/2); the result is again in 1/Unit.
RoundTo4(v) ==
    LET q == Unit \div RoundScale
    IN ((2 * v + q) \div (2 * q)) * q

\* The centre drawCube works out from the vertex array: the midpoint of the
\* front bottom left vertex (elements 0..2) and the back top right vertex
\* (elements 24..26), each coordinate rounded to 4 decimals first.
CubeCenter(vertices) ==
    LET x1 == RoundTo4(vertices[1])
        y1 == RoundTo4(vertices[2])
        z1 == RoundTo4(vertices[3])
        x2 == RoundTo4(vertices[25])
        y2 == RoundTo4(vertices[26])
        z2 == RoundTo4(vertices[27])
    IN << (x1 + x2) \div 2, (y1 + y2) \div 2, (z1 + z2) \div 2 >>

\* The normal matrix drawCube uploads: the inverse transpose of the global
\* modelMatrix as it stands when drawCube is entered.
NormalMatrixOf(modelMatrix) ==
    LET inverted == Mat4Invert(modelMatrix)
    IN Mat4Transpose(inverted)

\* The model matrix drawCube builds for a cube with the given centre.
BuildModelMatrix(modelMatrix, center, st) ==
    LET m0 == Mat4Identity(modelMatrix)
        m1 == Mat4Scale(m0, <<st.canvasScale, st.canvasScale, st.canvasScale>>)
        m2 == Mat4Multiply(st.canvasRotationMatrix, m1)
        m3 == Mat4Translate(m2, <<center[1], center[2], center[3]>>)
        m4 == Mat4RotateX(m3, st.xRotationAngle)
        m5 == Mat4RotateY(m4, st.yRotationAngle)
        m6 == Mat4RotateZ(m5, st.zRotationAngle)
    IN Mat4Translate(m6, <<-center[1], -center[2], -center[3]>>)

\* Mutant of drawCube: the normal matrix taken from the model matrix of the
\* same call, after it has been rebuilt.
drawCubeNormalAfter(vertices, modelMatrix, st) ==
    LET newModelMatrix == BuildModelMatrix(modelMatrix, CubeCenter(vertices), st)
    IN [uNormalMatrix |-> NormalMatrixOf(newModelMatrix),
        uModelMatrix  |-> newModelMatrix,
        mode          |-> "TRIANGLES",
        count         |-> Len(vertices) \div 3]

\* drawCube(vertices), given the global modelMatrix and state it reads: the
\* matrix uniforms it uploads and the drawArrays call it issues on the
\* uploaded vertices.  The normal matrix is uploaded first, the model matrix
\* is rebuilt after it.
drawCube(vertices, modelMatrix, st) ==
    LET normalMatrix == NormalMatrixOf(modelMatrix)
        newModelMatrix == BuildModelMatrix(modelMatrix, CubeCenter(vertices), st)
    IN [uNormalMatrix |-> normalMatrix,
        uModelMatrix  |-> newModelMatrix,
        mode          |-> "TRIANGLES",
        count         |-> Len(vertices) \div 3]

\* The drawCube calls of one drawCarpet run, each reading the modelMatrix the
\* previous one left.
RECURSIVE DrawCubes(_, _, _, _)
DrawCubes(cubes, k, modelMatrix, st) ==
    IF k > Len(cubes) THEN <<>>
    ELSE LET d == drawCube(cubes[k], modelMatrix, st)
         IN <<d>> \o DrawCubes(cubes, k + 1, d.uModelMatrix, st)

\* animate(): advance the three angles by speed / 200, then draw the carpet
\* at the depth the step slider shows.  Gives the new state, the draws of
\* the frame and the modelMatrix the last draw leaves.
AdvanceAngles(st) ==
    [st EXCEPT !.xRotationAngle = @ + (st.xRotationSpeed * AngleDen) \div 200,
               !.yRotationAngle = @ + (st.yRotationSpeed * AngleDen) \div 200,
               !.zRotationAngle = @ + (st.zRotationSpeed * AngleDen) \div 200]

\* Mutant of animate: the carpet drawn before the angles are advanced.
animateDrawFirst(st, modelMatrix, sliderValue) ==
    LET cubes == CarpetCubes(-Unit, -Unit, st.canvasSize, sliderValue)
        draws == DrawCubes(cubes, 1, modelMatrix, st)
    IN [state |-> AdvanceAngles(st),
        draws |-> draws,
        iterations |-> sliderValue,
        modelMatrix |-> IF draws = <<>> THEN modelMatrix
                        ELSE draws[Len(draws)].uModelMatrix]

animate(st, modelMatrix, sliderValue) ==
    LET st1 == AdvanceAngles(st)
        cubes == CarpetCubes(-Unit, -Unit, st1.canvasSize, sliderValue)
        draws == DrawCubes(cubes, 1, modelMatrix, st1)
    IN [state |-> st1,
        draws |-> draws,
        iterations |-> sliderValue,
        modelMatrix |-> IF draws = <<>> THEN modelMatrix
                        ELSE draws[Len(draws)].uModelMatrix]

\* redraw(): copy the three rotation sliders' values into the speeds.
redraw(st, doc) ==
    [st EXCEPT !.xRotationSpeed = doc.xRotationSlider,
               !.yRotationSpeed = doc.yRotationSlider,
               !.zRotationSpeed = doc.zRotationSlider]

\* ------------------------------------------------------ pointer and wheel

handleMouseDown(st, event) ==
    [st EXCEPT !.mouseDown = TRUE,
               !.lastMouseX = event.clientX,
               !.lastMouseY = event.clientY]

handleMouseUp(st, event) == [st EXCEPT !.mouseDown = FALSE]

\* Mutant of handleMouseMove: the mouseDown guard left out.
handleMouseMoveUnguarded(st, event) ==
    LET newX == event.clientX
        newY == event.clientY
        deltaX == newX - st.lastMouseX
        deltaY == newY - st.lastMouseY
        r1 == Mat4Rotate(Mat4Create, st.dragSensitivity * deltaX, YAxis)
        newRotationMatrix == Mat4Rotate(r1, st.dragSensitivity * deltaY, XAxis)
    IN [st EXCEPT !.canvasRotationMatrix =
                        Mat4Multiply(newRotationMatrix, st.canvasRotationMatrix),
                  !.lastMouseX = newX,
                  !.lastMouseY = newY]

\* Mutant of handleMouseMove: the increment multiplied on the right of the
\* accumulated matrix.
handleMouseMoveOnRight(st, event) ==
    IF ~st.mouseDown THEN st
    ELSE
    LET newX == event.clientX
        newY == event.clientY
        deltaX == newX - st.lastMouseX
        deltaY == newY - st.lastMouseY
        r1 == Mat4Rotate(Mat4Create, st.dragSensitivity * deltaX, YAxis)
        newRotationMatrix == Mat4Rotate(r1, st.dragSensitivity * deltaY, XAxis)
    IN [st EXCEPT !.canvasRotationMatrix =
                        Mat4Multiply(st.canvasRotationMatrix, newRotationMatrix),
                  !.lastMouseX = newX,
                  !.lastMouseY = newY]

handleMouseMove(st, event) ==
    IF ~st.mouseDown THEN st
    ELSE
    LET newX == event.clientX
        newY == event.clientY
        deltaX == newX - st.lastMouseX
        deltaY == newY - st.lastMouseY
        r0 == Mat4Identity(Mat4Create)
        r1 == Mat4Rotate(r0, st.dragSensitivity * deltaX, YAxis)
        newRotationMatrix == Mat4Rotate(r1, st.dragSensitivity * deltaY, XAxis)
    IN [st EXCEPT !.canvasRotationMatrix =
                        Mat4Multiply(newRotationMatrix, st.canvasRotationMatrix),
                  !.lastMouseX = newX,
                  !.lastMouseY = newY]

\* zoomSensitivity = 0.1 and the clamp Math.min(Math.max(s, 0.1), 10.0).
ZoomSensitivity == 1
MinScale == 1
MaxScale == 100

Min(a, b) == IF a < b THEN a ELSE b
Max(a, b) == IF a > b THEN a ELSE b

\* Mutant of onCanvasWheel: the clamp left out.
onCanvasWheelNoClamp(st, event) ==
    [st EXCEPT !.canvasScale =
        IF event.deltaY > 0 THEN st.canvasScale - ZoomSensitivity
        ELSE IF event.deltaY < 0 THEN st.canvasScale + ZoomSensitivity
        ELSE st.canvasScale]

onCanvasWheel(st, event) ==
    LET stepped == IF event.deltaY > 0 THEN st.canvasScale - ZoomSensitivity
                   ELSE IF event.deltaY < 0 THEN st.canvasScale + ZoomSensitivity
                   ELSE st.canvasScale
    IN [st EXCEPT !.canvasScale = Min(Max(stepped, MinScale), MaxScale)]

\* ------------------------------------------------------ top-level script

\* What the page may or may not provide to the script.
EnvFields == {"canvas", "webgl", "vertexShader", "fragmentShader", "link",
              "stepSlider", "xRotationSlider", "yRotationSlider",
              "zRotationSlider", "container"}

AllPresent == [f \in EnvFields |-> TRUE]

\* console.error calls of createShaderProgram: a shader that fails to
\* compile is reported and attached all the same; a program that fails to
\* link (as it does when a shader did not compile) is reported and returned
\* all the same.
ShaderDiagnostics(e) ==
    (IF ~e.vertexShader THEN {"Shader compilation failed: VERTEX_SHADER"} ELSE {})
    \cup (IF ~e.fragmentShader THEN {"Shader compilation failed: FRAGMENT_SHADER"} ELSE {})
    \cup (IF ~e.vertexShader \/ ~e.fragmentShader \/ ~e.link
          THEN {"Unable to initialize the shader program"} ELSE {})

\* The addEventListener calls at the end of the script, in order: the element
\* each is made on and the listener it registers.
Wiring == << [on |-> "xRotationSlider", listener |-> "xRotationSlider.input"],
             [on |-> "yRotationSlider", listener |-> "yRotationSlider.input"],
             [on |-> "zRotationSlider", listener |-> "zRotationSlider.input"],
             [on |-> "stepSlider",      listener |-> "stepSlider.click"],
             [on |-> "container",       listener |-> "container.mousedown"],
             [on |-> "container",       listener |-> "container.mouseup"],
             [on |-> "container",       listener |-> "container.mouseout"],
             [on |-> "container",       listener |-> "container.mousemove"],
             [on |-> "container",       listener |-> "container.wheel"] >>

\* The listeners registered before the first addEventListener call on a
\* missing (null) element throws.
RECURSIVE Wired(_, _)
Wired(e, k) ==
    IF k > Len(Wiring) \/ ~e[Wiring[k].on] THEN {}
    ELSE {Wiring[k].listener} \cup Wired(e, k + 1)

\* Mutant of RunScript: a missing container skipped over instead of thrown on.
RunScriptSkippingContainer(e) ==
    IF ~e.canvas
    THEN [reached |-> "canvas.getContext", listeners |-> {},
          console |-> {"Uncaught TypeError"}, animate |-> FALSE]
    ELSE IF ~e.webgl
    THEN [reached |-> "gl.createProgram", listeners |-> {},
          console |-> {"Uncaught TypeError"}, animate |-> FALSE]
    ELSE IF \E k \in 1..Len(Wiring) : Wiring[k].on # "container" /\ ~e[Wiring[k].on]
    THEN [reached |-> "addEventListener", listeners |-> Wired(e, 1),
          console |-> ShaderDiagnostics(e) \cup {"Uncaught TypeError"},
          animate |-> FALSE]
    ELSE [reached |-> "animate",
          listeners |-> {Wiring[k].listener : k \in {n \in 1..Len(Wiring) : e[Wiring[n].on]}},
          console |-> ShaderDiagnostics(e), animate |-> TRUE]

\* The script from its first statement to the call of animate(): a property
\* read or method call on a null handle throws a TypeError nothing catches,
\* which ends the script there (the browser reports it on the console);
\* console.error alone ends nothing.
RunScript(e) ==
    IF ~e.canvas
    THEN [reached |-> "canvas.getContext", listeners |-> {},
          console |-> {"Uncaught TypeError"}, animate |-> FALSE]
    ELSE IF ~e.webgl
    THEN [reached |-> "gl.createProgram", listeners |-> {},
          console |-> {"Uncaught TypeError"}, animate |-> FALSE]
    ELSE IF Cardinality(Wired(e, 1)) < Len(Wiring)
    THEN [reached |-> "addEventListener", listeners |-> Wired(e, 1),
          console |-> ShaderDiagnostics(e) \cup {"Uncaught TypeError"},
          animate |-> FALSE]
    ELSE [reached |-> "animate", listeners |-> Wired(e, 1),
          console |-> ShaderDiagnostics(e), animate |-> TRUE]

\* ------------------------------------------------------------------ state

\* lastMouseX / lastMouseY start as null.
Null == -1

\* dragSensitivity: 0.01 is 2 / AngleDen.
DragSensitivity == 2

\* The `state` object as the script creates it.
InitialState ==
    [canvasSize |-> 2 * Unit,
     xRotationSpeed |-> 0, yRotationSpeed |-> 0, zRotationSpeed |-> 0,
     xRotationAngle |-> 0, yRotationAngle |-> 0, zRotationAngle |-> 0,
     mouseDown |-> FALSE,
     lastMouseX |-> Null,
     lastMouseY |-> Null,
     dragSensitivity |-> DragSensitivity,
     canvasRotationMatrix |-> Mat4Create,
     canvasScale |-> 1 * ScaleDen]

VARIABLES
    pc,            \* "load" before the script has run, then "running" (the
                   \* frame loop is scheduled) or "aborted" (the script threw)
    env,           \* what the page provides (EnvFields)
    listeners,     \* the event listeners registered so far
    console,       \* the diagnostics on the console
    state,         \* the script's `state` object
    modelMatrix,   \* the script's global modelMatrix
    doc,           \* the values of the four sliders in the document
    frame,         \* the gl calls of the latest animate(): its draws
    drawCalls,     \* gl.drawArrays calls issued since the page loaded
    nEvents,       \* events handled so far (bounds the run)
    lastEvent,     \* history: the event handled by the latest step
    armed,         \* history: a mousedown was delivered, no mouseup/mouseout since
    dragPath,      \* history: pointer positions since the latest mousedown
    rotBefore,     \* history: canvasRotationMatrix at the latest mousedown
    wheels,        \* history: wheel events delivered, and their directions
    carpetCall,    \* a stand-alone drawCarpet call: its arguments
    carpetTrace    \* ... and its trace once it has run

vars == << pc, env, listeners, console, state, modelMatrix, doc, frame, drawCalls,
           nEvents, lastEvent, armed, dragPath, rotBefore, wheels,
           carpetCall, carpetTrace >>

programVars == << pc, env, listeners, console, state, modelMatrix, doc, frame,
                  drawCalls >>
pointerHistory == << armed, dragPath, rotBefore >>
carpetVars == << carpetCall, carpetTrace >>

\* ------------------------------------------------------------ input sets

\* Events per run of the whole program.
MaxEvents == 3
\* Pointer events per run of the pointer handlers alone.
MaxPointerEvents == 5
\* Wheel events per run of the wheel handler alone.
MaxWheelEvents == 200
\* Events per run after a start-up that may fail.
MaxStartupEvents == 2
\* Origins of stand-alone drawCarpet calls: multiples of 1/2 up to this many.
MaxOrigin == 2

\* Pointer coordinates (clientX, clientY), rotation slider values, step
\* slider values (recursion depths in the frame loop) and wheel deltaY signs.
Coords == {0, 1}
Speeds == {-1, 0, 1}
Depths == {1, 2}
WheelDeltas == {-1, 0, 1}

NoCall == [x |-> 0, y |-> 0, size |-> 0, iterations |-> 0]

\* ------------------------------------------------------------------- Init

InitProgram(e) ==
    /\ pc = "load"
    /\ env = e
    /\ listeners = {}
    /\ console = {}
    /\ state = InitialState
    /\ modelMatrix = Mat4Create
    /\ frame = [draws |-> <<>>, iterations |-> 0]
    /\ drawCalls = 0
    /\ \E n \in Depths :
          doc = [stepSlider |-> n, xRotationSlider |-> 0,
                 yRotationSlider |-> 0, zRotationSlider |-> 0]

InitHistory ==
    /\ nEvents = 0
    /\ lastEvent = "none"
    /\ armed = FALSE
    /\ dragPath = <<>>
    /\ rotBefore = Mat4Create
    /\ wheels = [count |-> 0, onlyOut |-> TRUE, onlyIn |-> TRUE]

Init ==
    /\ InitProgram(AllPresent)
    /\ InitHistory
    /\ carpetCall = NoCall
    /\ carpetTrace = <<>>

\* ---------------------------------------------------------------- actions

\* The script runs; when it reaches its last statement, animate() draws the
\* first frame at once and schedules itself.
LoadScript ==
    /\ pc = "load"
    /\ LET r == RunScript(env)
           f == animate(state, modelMatrix, doc.stepSlider)
       IN /\ listeners' = r.listeners
          /\ console' = r.console
          /\ IF r.animate
             THEN /\ pc' = "running"
                  /\ state' = f.state
                  /\ modelMatrix' = f.modelMatrix
                  /\ frame' = [draws |-> f.draws, iterations |-> f.iterations]
                  /\ drawCalls' = drawCalls + Len(f.draws)
             ELSE /\ pc' = "aborted"
                  /\ UNCHANGED << state, modelMatrix, frame, drawCalls >>
    /\ lastEvent' = "load"
    /\ UNCHANGED << env, doc, nEvents, pointerHistory, wheels, carpetVars >>

\* requestAnimationFrame calls animate() again.
Frame(limit) ==
    /\ pc = "running"
    /\ nEvents < limit
    /\ LET f == animate(state, modelMatrix, doc.stepSlider)
       IN /\ state' = f.state
          /\ modelMatrix' = f.modelMatrix
          /\ frame' = [draws |-> f.draws, iterations |-> f.iterations]
          /\ drawCalls' = drawCalls + Len(f.draws)
    /\ nEvents' = nEvents + 1
    /\ lastEvent' = "frame"
    /\ UNCHANGED << pc, env, listeners, console, doc, pointerHistory, wheels,
                    carpetVars >>

\* The user moves a rotation slider to value v: its input listener calls
\* redraw(), which reads all three sliders.
RotationSliderInput(limit) ==
    /\ pc # "load"
    /\ nEvents < limit
    /\ \E s \in {"xRotationSlider", "yRotationSlider", "zRotationSlider"},
          v \in Speeds :
          /\ env[s]
          /\ v # doc[s]
          /\ doc' = [doc EXCEPT ![s] = v]
          /\ state' = IF (s \o ".input") \in listeners
                      THEN redraw(state, doc') ELSE state
    /\ nEvents' = nEvents + 1
    /\ lastEvent' = "input"
    /\ UNCHANGED << pc, env, listeners, console, modelMatrix, frame, drawCalls,
                    pointerHistory, wheels, carpetVars >>

\* The user moves the step slider to depth n; onSliderClick only shows the
\* value and clears the canvas, animate reads the slider itself.
StepSliderClick(limit) ==
    /\ pc # "load"
    /\ nEvents < limit
    /\ env.stepSlider
    /\ \E n \in Depths :
          /\ n # doc.stepSlider
          /\ doc' = [doc EXCEPT !.stepSlider = n]
    /\ nEvents' = nEvents + 1
    /\ lastEvent' = "click"
    /\ UNCHANGED << pc, env, listeners, console, state, modelMatrix, frame,
                    drawCalls, pointerHistory, wheels, carpetVars >>

MouseDown(limit) ==
    /\ "container.mousedown" \in listeners
    /\ nEvents < limit
    /\ \E x \in Coords, y \in Coords :
          /\ state' = handleMouseDown(state, [clientX |-> x, clientY |-> y])
          /\ dragPath' = << <<x, y>> >>
    /\ armed' = TRUE
    /\ rotBefore' = state.canvasRotationMatrix
    /\ nEvents' = nEvents + 1
    /\ lastEvent' = "mousedown"
    /\ UNCHANGED << pc, env, listeners, console, modelMatrix, doc, frame,
                    drawCalls, wheels, carpetVars >>

MouseUp(limit) ==
    /\ "container.mouseup" \in listeners
    /\ nEvents < limit
    /\ state' = handleMouseUp(state, [type |-> "mouseup"])
    /\ armed' = FALSE
    /\ nEvents' = nEvents + 1
    /\ lastEvent' = "mouseup"
    /\ UNCHANGED << pc, env, listeners, console, modelMatrix, doc, frame,
                    drawCalls, dragPath, rotBefore, wheels, carpetVars >>

\* mouseout is wired to handleMouseUp as well.
MouseOut(limit) ==
    /\ "container.mouseout" \in listeners
    /\ nEvents < limit
    /\ state' = handleMouseUp(state, [type |-> "mouseout"])
    /\ armed' = FALSE
    /\ nEvents' = nEvents + 1
    /\ lastEvent' = "mouseout"
    /\ UNCHANGED << pc, env, listeners, console, modelMatrix, doc, frame,
                    drawCalls, dragPath, rotBefore, wheels, carpetVars >>

MouseMove(limit) ==
    /\ "container.mousemove" \in listeners
    /\ nEvents < limit
    /\ \E x \in Coords, y \in Coords :
          /\ state' = handleMouseMove(state, [clientX |-> x, clientY |-> y])
          /\ dragPath' = IF armed THEN Append(dragPath, <<x, y>>) ELSE dragPath
    /\ nEvents' = nEvents + 1
    /\ lastEvent' = "mousemove"
    /\ UNCHANGED << pc, env, listeners, console, modelMatrix, doc, frame,
                    drawCalls, armed, rotBefore, wheels, carpetVars >>

Wheel(limit) ==
    /\ "container.wheel" \in listeners
    /\ nEvents < limit
    /\ \E dy \in WheelDeltas :
          /\ state' = onCanvasWheel(state, [deltaY |-> dy])
          /\ wheels' = [count |-> wheels.count + 1,
                        onlyOut |-> wheels.onlyOut /\ dy > 0,
                        onlyIn |-> wheels.onlyIn /\ dy < 0]
    /\ nEvents' = nEvents + 1
    /\ lastEvent' = "wheel"
    /\ UNCHANGED << pc, env, listeners, console, modelMatrix, doc, frame,
                    drawCalls, pointerHistory, carpetVars >>

\* ---------------------------------------------------------- specifications

\* The whole program after a start-up in which everything is present.
Next ==
    \/ LoadScript
    \/ Frame(MaxEvents)
    \/ RotationSliderInput(MaxEvents)
    \/ StepSliderClick(MaxEvents)
    \/ MouseDown(MaxEvents)
    \/ MouseUp(MaxEvents)
    \/ MouseOut(MaxEvents)
    \/ MouseMove(MaxEvents)
    \/ Wheel(MaxEvents)

Spec == Init /\ [][Next]_vars

\* The pointer handlers alone.
NextPointer ==
    \/ LoadScript
    \/ MouseDown(MaxPointerEvents)
    \/ MouseUp(MaxPointerEvents)
    \/ MouseOut(MaxPointerEvents)
    \/ MouseMove(MaxPointerEvents)

SpecPointer == Init /\ [][NextPointer]_vars

\* The wheel handler alone.
NextWheel ==
    \/ LoadScript
    \/ Wheel(MaxWheelEvents)

SpecWheel == Init /\ [][NextWheel]_vars

\* Start-up on a page that may lack any of the handles, or whose shaders may
\* fail to compile or link.
InitStartup ==
    /\ \E e \in [EnvFields -> BOOLEAN] : InitProgram(e)
    /\ InitHistory
    /\ carpetCall = NoCall
    /\ carpetTrace = <<>>

NextStartup ==
    \/ LoadScript
    \/ Frame(MaxStartupEvents)
    \/ RotationSliderInput(MaxStartupEvents)

SpecStartup == InitStartup /\ [][NextStartup]_vars

\* A stand-alone drawCarpet call on arguments drawn from small sets.
CarpetInputs ==
    { [x |-> kx * (Unit \div 2), y |-> ky * (Unit \div 2), size |-> s * Unit,
       iterations |-> n] :
         kx \in -MaxOrigin..MaxOrigin, ky \in -MaxOrigin..MaxOrigin,
         s \in {1, 2}, n \in 1..MaxIterations }

InitCarpet ==
    /\ InitProgram(AllPresent)
    /\ InitHistory
    /\ carpetCall \in CarpetInputs
    /\ carpetTrace = <<>>

CallDrawCarpet ==
    /\ carpetTrace = <<>>
    /\ carpetCall # NoCall
    /\ carpetTrace' = drawCarpet(carpetCall.x, carpetCall.y, carpetCall.size,
                                 carpetCall.iterations)
    /\ UNCHANGED << programVars, nEvents, lastEvent, pointerHistory, wheels,
                    carpetCall >>

NextCarpet == CallDrawCarpet

SpecCarpet == InitCarpet /\ [][NextCarpet]_vars

\* ================================================================ claims

CarpetDone == carpetTrace # <<>>

IsRecursion(e) == e.act = "drawCarpet"
IsCentre(e) == e.call.i = 1 /\ e.call.j = 1

RECURSIVE GeometricSum8(_)
GeometricSum8(n) == IF n = 0 THEN 0 ELSE 1 + 8 * GeometricSum8(n - 1)

RECURSIVE Pow8(_)
Pow8(n) == IF n = 0 THEN 1 ELSE 8 * Pow8(n - 1)

\* C1: one call drawCarpet(x, y, size, n) with n >= 1 issues exactly
\* 1 + 8 + ... + 8^(n-1) = (8^n - 1) / 7 drawCube calls; every invocation
\* draws one cube (as many cubes as invocations, the top call and one per
\* recursion) and recurses only while its iterations exceed 1.
C1_CubeCount ==
    CarpetDone =>
        LET n == carpetCall.iterations
            cubes == Len(SelectSeq(carpetTrace, IsDrawCube))
            recursions == Len(SelectSeq(carpetTrace, IsRecursion))
        IN /\ cubes = GeometricSum8(n)
           /\ 7 * cubes = Pow8(n) - 1
           /\ cubes = 1 + recursions
           /\ \A k \in 1..Len(carpetTrace) :
                 IsRecursion(carpetTrace[k]) => carpetTrace[k].call.iterations > 1

C1_Witness ==
    /\ CarpetDone
    /\ carpetCall.iterations = 3
    /\ Len(SelectSeq(carpetTrace, IsDrawCube)) = 73

\* The (x, y, z) of vertex number v (0..35) of a vertex array.
VertexOf(vertices, v) == << vertices[3 * v + 1], vertices[3 * v + 2], vertices[3 * v + 3] >>

\* The vertex array spans exactly the cube of the given centre and side.
SpansCube(vertices, c, side) ==
    /\ Len(vertices) = 3 * 36
    /\ \A a \in 1..3 :
          /\ \A v \in 0..35 : VertexOf(vertices, v)[a] \in {c[a] - side \div 2, c[a] + side \div 2}
          /\ \E v \in 0..35 : VertexOf(vertices, v)[a] = c[a] - side \div 2
          /\ \E v \in 0..35 : VertexOf(vertices, v)[a] = c[a] + side \div 2

\* C2: the cube an invocation drawCarpet(x, y, size, n) emits itself has side
\* size/3 and centre (x + size/2, y + size/2, size/6), so it rests on z = 0;
\* at recursion depth d its side is originalSize / 3^d; and
\* drawCarpet(-1, -1, 2, 1) emits one cube, centre (0, 0, 1/3), side 2/3.
C2_CubePlacement ==
    CarpetDone =>
        /\ \A k \in 1..Len(carpetTrace) :
              LET e == carpetTrace[k]
                  c == e.call
                  d == carpetCall.iterations - c.iterations + 1
              IN IsDrawCube(e) =>
                   /\ 3 * (c.size \div 3) = c.size
                   /\ 6 * (c.size \div 6) = c.size
                   /\ SpansCube(e.vertices,
                                << c.x + c.size \div 2, c.y + c.size \div 2, c.size \div 6 >>,
                                c.size \div 3)
                   /\ \A v \in 0..35 : VertexOf(e.vertices, v)[3] >= 0
                   /\ (c.size \div 3) * Pow3(d) = carpetCall.size
        /\ carpetCall = [x |-> -Unit, y |-> -Unit, size |-> 2 * Unit, iterations |-> 1]
              => LET cubes == SelectSeq(carpetTrace, IsDrawCube)
                 IN /\ Len(cubes) = 1
                    /\ 3 * (Unit \div 3) = Unit
                    /\ SpansCube(cubes[1].vertices, <<0, 0, Unit \div 3>>, 2 * (Unit \div 3))

C2_Witness ==
    /\ CarpetDone
    /\ carpetCall = [x |-> -Unit, y |-> -Unit, size |-> 2 * Unit, iterations |-> 3]
    /\ \E k \in 1..Len(carpetTrace) :
          /\ IsDrawCube(carpetTrace[k])
          /\ carpetTrace[k].call.iterations = 1
          /\ 9 * carpetTrace[k].call.size = carpetCall.size

\* C3 as claimed: at every 3x3 split the centre cell is drawn as a cube and
\* each other cell is drawn as a cube or recursed into, none left empty.
C3_NoCellLeftEmpty ==
    \A k \in 1..Len(carpetTrace) :
        /\ IsCentre(carpetTrace[k]) => IsDrawCube(carpetTrace[k])
        /\ carpetTrace[k].act \in {"drawCube", "drawCarpet"}

\* C3 as the code has it: at every 3x3 split all 9 cells are visited; the
\* centre cell is drawn as a cube; each other cell is recursed into while
\* iterations > 1 and is left empty (no cube, no recursion) once the
\* iteration budget is exhausted.
C3_CellDisposition ==
    CarpetDone =>
        /\ Len(carpetTrace) = 9 * (1 + Len(SelectSeq(carpetTrace, IsRecursion)))
        /\ \A k \in 1..Len(carpetTrace) :
              LET e == carpetTrace[k]
              IN /\ e.call.i \in 0..2 /\ e.call.j \in 0..2
                 /\ IsCentre(e) => e.act = "drawCube"
                 /\ ~IsCentre(e) /\ e.call.iterations > 1 => e.act = "drawCarpet"
                 /\ ~IsCentre(e) /\ e.call.iterations <= 1 => e.act = "none"

C3_Witness ==
    /\ CarpetDone
    /\ carpetCall.iterations = 2
    /\ \E k \in 1..Len(carpetTrace) : carpetTrace[k].act = "none"
    /\ \E k \in 1..Len(carpetTrace) : carpetTrace[k].act = "drawCarpet"

\* ------------------------------------------------- frames: C4, C9, C10

\* The step just taken was a run of animate() (the first one, made by the
\* script, or a later one).
FrameDrawn == lastEvent \in {"load", "frame"} /\ pc = "running"

\* The vertex arrays of the frame recorded in `frame`.
FrameCubes == CarpetCubes(-Unit, -Unit, state.canvasSize, frame.iterations)

\* The centre of the cube a vertex array spans: the midpoint of two opposite
\* corners.
ExactCentre(vertices) ==
    << (vertices[1] + vertices[25]) \div 2,
       (vertices[2] + vertices[26]) \div 2,
       (vertices[3] + vertices[27]) \div 2 >>

\* v (in 1/Unit) to the nearest multiple of 0.0001, a tie going up.
NearestTenThousandth(v) ==
    LET q == Unit \div 10000
        below == (v \div q) * q
    IN IF 2 * (v - below) >= q THEN below + q ELSE below

\* The midpoint of the same two corners once each coordinate is rounded to
\* 4 decimals.
RoundedCentre(vertices) ==
    << (NearestTenThousandth(vertices[1]) + NearestTenThousandth(vertices[25])) \div 2,
       (NearestTenThousandth(vertices[2]) + NearestTenThousandth(vertices[26])) \div 2,
       (NearestTenThousandth(vertices[3]) + NearestTenThousandth(vertices[27])) \div 2 >>

\* identity, scale by zoomScale, dragRotation multiplied on the left,
\* translate by c, rotate about X, Y, Z by the spin angles, translate by -c.
ComposedModelMatrix(c, st) ==
    st.canvasRotationMatrix
    \o << [op |-> "scale", v |-> <<st.canvasScale, st.canvasScale, st.canvasScale>>,
           rad |-> 0, inv |-> FALSE, tr |-> FALSE],
          [op |-> "translate", v |-> <<c[1], c[2], c[3]>>,
           rad |-> 0, inv |-> FALSE, tr |-> FALSE],
          [op |-> "rotate", v |-> <<1, 0, 0>>, rad |-> st.xRotationAngle,
           inv |-> FALSE, tr |-> FALSE],
          [op |-> "rotate", v |-> <<0, 1, 0>>, rad |-> st.yRotationAngle,
           inv |-> FALSE, tr |-> FALSE],
          [op |-> "rotate", v |-> <<0, 0, 1>>, rad |-> st.zRotationAngle,
           inv |-> FALSE, tr |-> FALSE],
          [op |-> "translate", v |-> <<-c[1], -c[2], -c[3]>>,
           rad |-> 0, inv |-> FALSE, tr |-> FALSE] >>

\* C4: the model matrix of every cube drawn is identity, scale by zoomScale,
\* dragRotation on the left, translate by the cube's centre, rotate X, Y, Z by
\* the spin angles, translate back by the cube's centre; nothing of the
\* matrix an earlier draw left remains in it.
C4_AboutTheCubesCentre ==
    FrameDrawn =>
        \A k \in 1..Len(frame.draws) :
            frame.draws[k].uModelMatrix
                = ComposedModelMatrix(ExactCentre(FrameCubes[k]), state)

\* What drawCube does instead (C4): the same sequence of operations, nothing
\* in between and nothing kept from the matrix an earlier draw left, but the
\* point translated to and back from is the centre drawCube recomputes from
\* the vertices: the midpoint of the front bottom left and back top right
\* corners after each coordinate is rounded to 4 decimals.
C4_ModelMatrixSequence ==
    FrameDrawn =>
        /\ Len(frame.draws) = Len(FrameCubes)
        /\ \A k \in 1..Len(frame.draws) :
              frame.draws[k].uModelMatrix
                  = ComposedModelMatrix(RoundedCentre(FrameCubes[k]), state)

\* The parts of a model matrix of the shape drawCube builds.
SpinOf(m) == << m[Len(m) - 3].rad, m[Len(m) - 2].rad, m[Len(m) - 1].rad >>
PivotOf(m) == m[Len(m) - 4].v
ScaleOf(m) == m[Len(m) - 5].v
DragOf(m) == SubSeq(m, 1, Len(m) - 6)

\* C9: in every tick of animate() the three angles are advanced by
\* speed/200 before any cube of the tick is drawn, each cube's matrix is
\* computed from that cube's own vertices before its draw is submitted, every
\* cube of the frame is drawn with the same (advanced) angles, zoomScale and
\* dragRotation, which the tick leaves as they were, and the depth is the
\* step slider's value at the tick.
C9_TickOrder ==
    [][ (lastEvent' \in {"load", "frame"} /\ pc' = "running") =>
          /\ 200 * (state'.xRotationAngle - state.xRotationAngle)
                = AngleDen * state.xRotationSpeed
          /\ 200 * (state'.yRotationAngle - state.yRotationAngle)
                = AngleDen * state.yRotationSpeed
          /\ 200 * (state'.zRotationAngle - state.zRotationAngle)
                = AngleDen * state.zRotationSpeed
          /\ state' = [state EXCEPT !.xRotationAngle = state'.xRotationAngle,
                                    !.yRotationAngle = state'.yRotationAngle,
                                    !.zRotationAngle = state'.zRotationAngle]
          /\ frame'.iterations = doc.stepSlider
          /\ doc' = doc
          /\ Len(frame'.draws) = GeometricSum8(doc.stepSlider)
          /\ drawCalls' = drawCalls + Len(frame'.draws)
          /\ \A k \in 1..Len(frame'.draws) :
                LET m == frame'.draws[k].uModelMatrix
                    cube == CarpetCubes(-Unit, -Unit, state.canvasSize, doc.stepSlider)[k]
                IN /\ SpinOf(m) = << state'.xRotationAngle, state'.yRotationAngle,
                                     state'.zRotationAngle >>
                   /\ ScaleOf(m) = << state.canvasScale, state.canvasScale,
                                      state.canvasScale >>
                   /\ DragOf(m) = state.canvasRotationMatrix
                   /\ PivotOf(m) = RoundedCentre(cube)
                   /\ frame'.draws[k].count = Len(cube) \div 3
      ]_vars

C9_Witness ==
    /\ lastEvent = "frame"
    /\ state.xRotationSpeed # 0
    /\ state.xRotationAngle # 0
    /\ state.canvasScale # ScaleDen
    /\ frame.iterations = 2
    /\ Len(frame.draws) = 9

\* The inverse transpose of a product: every factor inverted and transposed,
\* in the same order.
InverseTranspose(m) ==
    [k \in 1..Len(m) |-> [op |-> m[k].op, v |-> m[k].v, rad |-> m[k].rad,
                          inv |-> ~m[k].inv, tr |-> ~m[k].tr]]

\* C10: the normal matrix uploaded by a drawCube call is the inverse
\* transpose of the model matrix the previous drawCube call left: the
\* identity for the very first call, the last cube of the previous frame for
\* the first cube of a frame, the previous cube of the frame otherwise.
C10_NormalMatrixLags ==
    [][ (lastEvent' \in {"load", "frame"} /\ pc' = "running") =>
          /\ modelMatrix = IF frame.draws = <<>> THEN <<>>
                           ELSE frame.draws[Len(frame.draws)].uModelMatrix
          /\ frame'.draws # <<>>
          /\ \A k \in 1..Len(frame'.draws) :
                frame'.draws[k].uNormalMatrix
                    = InverseTranspose(IF k = 1 THEN modelMatrix
                                       ELSE frame'.draws[k - 1].uModelMatrix)
          /\ modelMatrix' = frame'.draws[Len(frame'.draws)].uModelMatrix
      ]_vars

C10_Witness ==
    /\ lastEvent = "frame"
    /\ nEvents >= 2
    /\ Len(frame.draws) >= 2
    /\ state.zRotationAngle # 0
    /\ \A k \in 1..Len(frame.draws) :
          frame.draws[k].uNormalMatrix # InverseTranspose(frame.draws[k].uModelMatrix)

\* ------------------------------------------------------ pointer: C5, C6

\* C5: whatever other events come in between, a mousemove changes
\* dragRotation and lastMouseX / lastMouseY only if a mousedown has been
\* delivered with no mouseup or mouseout since; a mousemove while idle
\* changes nothing at all; mouseup and mouseout leave the pointer idle; and
\* mouseDown is set exactly while such a mousedown is outstanding.
C5_DragGuard ==
    /\ [](state.mouseDown = armed)
    /\ [][ /\ (lastEvent' = "mousemove" /\ ~armed) =>
                 /\ state' = state
                 /\ modelMatrix' = modelMatrix
                 /\ doc' = doc
                 /\ frame' = frame
           /\ (/\ lastEvent' = "mousemove"
               /\ \/ state'.canvasRotationMatrix # state.canvasRotationMatrix
                  \/ state'.lastMouseX # state.lastMouseX
                  \/ state'.lastMouseY # state.lastMouseY) => armed
           /\ lastEvent' \in {"mouseup", "mouseout"} => ~state'.mouseDown
         ]_vars

C5_Witness ==
    /\ lastEvent = "mousemove"
    /\ ~armed
    /\ dragPath # <<>>
    /\ nEvents >= 3

\* R_i for the move from p to q: RotY(dragSensitivity * dx) * RotX(dragSensitivity * dy).
DragIncrement(p, q, sensitivity) ==
    << [op |-> "rotate", v |-> <<0, 1, 0>>, rad |-> sensitivity * (q[1] - p[1]),
        inv |-> FALSE, tr |-> FALSE],
       [op |-> "rotate", v |-> <<1, 0, 0>>, rad |-> sensitivity * (q[2] - p[2]),
        inv |-> FALSE, tr |-> FALSE] >>

\* R_k * ... * R_1 for the path p0, p1, ..., pk.
RECURSIVE DragProduct(_, _)
DragProduct(path, sensitivity) ==
    IF Len(path) < 2 THEN <<>>
    ELSE DragIncrement(path[Len(path) - 1], path[Len(path)], sensitivity)
         \o DragProduct(SubSeq(path, 1, Len(path) - 1), sensitivity)

\* C6: after a mousedown at p0 and mousemoves to p1..pk while dragging,
\* dragRotation is R_k * ... * R_1 * R_before, each R_i taken from the delta
\* to the previous pointer position, and lastMouseX / lastMouseY are pk.
C6_DragComposition ==
    /\ state.canvasRotationMatrix
          = DragProduct(dragPath, state.dragSensitivity) \o rotBefore
    /\ dragPath # <<>> =>
          << state.lastMouseX, state.lastMouseY >> = dragPath[Len(dragPath)]

C6_Witness ==
    /\ armed
    /\ Len(dragPath) >= 3
    /\ rotBefore # <<>>
    /\ dragPath[2] # dragPath[1]
    /\ dragPath[3] # dragPath[2]
    /\ dragPath[3] # dragPath[1]

\* ------------------------------------------------------------- wheel: C7

\* C7: after every wheel event zoomScale lies in [0.1, 10.0]; 200 zoom-out
\* events in a row from 1.0 leave it at exactly 0.1 and 200 zoom-in events
\* in a row leave it at exactly 10.0.
C7_ZoomClamp ==
    /\ 10 * state.canvasScale >= 1 * ScaleDen
    /\ state.canvasScale <= 10 * ScaleDen
    /\ (wheels.count = 200 /\ wheels.onlyOut) => 10 * state.canvasScale = 1 * ScaleDen
    /\ (wheels.count = 200 /\ wheels.onlyIn) => state.canvasScale = 10 * ScaleDen

C7_Witness ==
    /\ wheels.count = 200
    /\ wheels.onlyIn
    /\ state.canvasScale = 10 * ScaleDen

\* ----------------------------------------------------------- start-up: C8

HandleAbsent ==
    \E f \in {"canvas", "webgl", "stepSlider", "xRotationSlider", "yRotationSlider",
              "zRotationSlider", "container"} : ~env[f]

ShaderFailure == ~env.vertexShader \/ ~env.fragmentShader \/ ~env.link

\* C8 as claimed: if any initialization step fails (a handle absent, a shader
\* not compiling, the program not linking) a diagnostic is logged, setup
\* halts, animate() is never started and no draw call is ever issued.
C8_AnyFailureHalts ==
    (pc # "load" /\ (HandleAbsent \/ ShaderFailure)) =>
        /\ console # {}
        /\ pc = "aborted"
        /\ drawCalls = 0

\* C8 as the code has it: an absent handle ends the script with an uncaught
\* TypeError before animate() is reached, and no draw call is ever issued;
\* a shader or link failure is logged and nothing more: setup goes on,
\* animate() is started and draws.
C8_StartupFailure ==
    pc # "load" =>
        /\ HandleAbsent =>
              /\ pc = "aborted"
              /\ "Uncaught TypeError" \in console
              /\ drawCalls = 0
              /\ frame.draws = <<>>
        /\ ~HandleAbsent =>
              /\ pc = "running"
              /\ drawCalls > 0
              /\ ShaderFailure <=> console # {}

C8_Witness ==
    /\ pc = "aborted"
    /\ env.canvas /\ env.webgl /\ ~env.container /\ ~env.fragmentShader
    /\ listeners # {}
    /\ nEvents > 0

====
